---------------------------- MODULE Spec2Model ----------------------------
(***************************************************************************)
(* A model of riscv/processor.cc: the decode/dispatch table, the processor *)
(* state (status, cause, counters, vector configuration), the trap         *)
(* pipeline and the step loop, at the granularity of one instruction.      *)
(***************************************************************************)
EXTENDS Integers, Sequences, FiniteSets, TLC

(***************************************************************************)
(* Bounds of the model.                                                    *)
(***************************************************************************)
\* log2 of the number of dispatch-table slots
TableBits == 1
\* opcode-table entries enumerated by the decoder specification
MaxOps == 2
\* largest batch size n handed to step
MaxN == 5
\* width in bits of the count / compare / cycle counters
CountBits == 2
\* processor_t objects constructed in one process
MaxProcs == 3
\* lane slots of the uts array that are modelled
MaxLanes == 2

\* width of an instruction word: one bit more than the table index
InsnBits == TableBits + 1
DISPATCH_TABLE_SIZE == 2 ^ TableBits
Words == 0 .. (2 ^ InsnBits - 1)

RECURSIVE BitAnd(_, _)
BitAnd(x, y) ==
  IF x = 0 \/ y = 0 THEN 0
  ELSE (x % 2) * (y % 2) + 2 * BitAnd(x \div 2, y \div 2)

Min(a, b) == IF a <= b THEN a ELSE b

VARIABLES
  \* the opcode table (opcodes.h) and the static dispatch structures
  opcodes, dispatch_table, dispatch_chain,
  \* the number of processor_t objects constructed so far
  constructed,
  \* the last word handed to dispatch_table[...] and what it ran
  insn, ran,
  \* build-time configuration: enabled capabilities and lane-array capacity
  build, MAX_UTS,
  \* processor_t fields
  run, XPR, pc, evec, epc, badvaddr, cause, sr, count, compare, cycle,
  vecbanks_count, nxfpr_bank, nxpr_use, nfpr_use, vlmax, vl,
  \* the lane slots uts[0 .. MaxLanes-1]
  uts,
  \* the running step call: position, arguments, locals, words fetched so far
  pos, n, noisy, i, g, fetched,
  \* the demand() that ended the process, if any
  abort

dispVars == <<opcodes, dispatch_table, dispatch_chain, constructed, insn, ran>>
buildVars == <<build, MAX_UTS>>
regVars == <<run, XPR, pc, evec, epc, badvaddr, cause, sr, count, compare, cycle>>
vecVars == <<vecbanks_count, nxfpr_bank, nxpr_use, nfpr_use, vlmax, vl, uts>>
stepVars == <<pos, n, noisy, i, g, fetched>>
vars == <<dispVars, buildVars, regVars, vecVars, stepVars, abort>>

(***************************************************************************)
(* Decoder / dispatcher.                                                   *)
(***************************************************************************)
\* an opcode-table line DECLARE_INSN(name, opcode, mask) whose pattern can match
OpcodeEntries ==
  {e \in [opcode : Words, mask : Words] : BitAnd(e.opcode, e.mask) = e.opcode}

OpcodeTables == UNION {[1 .. k -> OpcodeEntries] : k \in 0 .. MaxOps}

NullFn == [kind |-> "null", func |-> 0]
DispatchFn == [kind |-> "dispatch", func |-> 0]
InsnFn(k) == [kind |-> "func", func |-> k]
Illegal == [kind |-> "trap_illegal_instruction", func |-> 0]
NoInsn == 0 - 1
NotRun == [kind |-> "none", func |-> 0]

\* the insn_chain_t records of the opcode table, func being the entry's position
ChainEntries(ops) ==
  [k \in 1 .. Len(ops) |->
     [func |-> k, opcode |-> ops[k].opcode, mask |-> ops[k].mask]]

IsCandidate(idx, c) ==
  BitAnd(idx, c.mask) = BitAnd(BitAnd(c.opcode, c.mask), DISPATCH_TABLE_SIZE - 1)

\* first loop of initialize_dispatch_table: the candidates of slot idx, in table order
BuildChain(ops, idx) ==
  SelectSeq(ChainEntries(ops), LAMBDA c : IsCandidate(idx, c))

\* second loop of initialize_dispatch_table
BindSlot(chain) ==
  IF Len(chain) = 1 THEN InsnFn(chain[1].func) ELSE DispatchFn

\* a scan that takes the first candidate without the mask test
ScanChainFirst(chain, w, k) ==
  IF k > Len(chain) THEN Illegal ELSE InsnFn(chain[k].func)

\* processor_t::dispatch: scan the chain of the word's slot
RECURSIVE ScanChain(_, _, _)
ScanChain(chain, w, k) ==
  IF k > Len(chain) THEN Illegal
  ELSE IF BitAnd(w, chain[k].mask) = chain[k].opcode THEN InsnFn(chain[k].func)
  ELSE ScanChain(chain, w, k + 1)

dispatch(w) == ScanChain(dispatch_chain[w % DISPATCH_TABLE_SIZE], w, 1)

\* dispatch_table[insn.bits % DISPATCH_TABLE_SIZE](this, insn, pc): what is run
Dispatched(w) ==
  LET f == dispatch_table[w % DISPATCH_TABLE_SIZE]
  IN  IF f.kind = "dispatch" THEN dispatch(w) ELSE f

\* an initialize_dispatch_table without its early return
initialize_dispatch_table_again ==
  LET chains == [idx \in 0 .. DISPATCH_TABLE_SIZE - 1 |->
                   dispatch_chain[idx] \o BuildChain(opcodes, idx)]
  IN  /\ dispatch_chain' = chains
      /\ dispatch_table' =
           [idx \in 0 .. DISPATCH_TABLE_SIZE - 1 |-> BindSlot(chains[idx])]

initialize_dispatch_table ==
  IF dispatch_table[0] # NullFn
  THEN UNCHANGED <<dispatch_table, dispatch_chain>>
  ELSE LET chains == [idx \in 0 .. DISPATCH_TABLE_SIZE - 1 |->
                        dispatch_chain[idx] \o BuildChain(opcodes, idx)]
       IN  /\ dispatch_chain' = chains
           /\ dispatch_table' =
                [idx \in 0 .. DISPATCH_TABLE_SIZE - 1 |-> BindSlot(chains[idx])]

(***************************************************************************)
(* Register and status state.                                              *)
(***************************************************************************)
SrFlags == {"SR_ET", "SR_EF", "SR_EV", "SR_EC", "SR_PS", "SR_S",
            "SR_UX", "SR_SX", "SR_VM", "SR_ZERO"}
IRQs == {"IPI_IRQ", "TIMER_IRQ"}
\* a 32-bit status value: its flag bits and its SR_IM field
SrVals == [flags : SUBSET SrFlags, im : SUBSET IRQs]

Capabilities == {"RISCV_ENABLE_64BIT", "RISCV_ENABLE_FPU",
                 "RISCV_ENABLE_RVC", "RISCV_ENABLE_VEC"}

\* the trap_t codes below NUM_TRAPS; cause = 0 holds the first of them
TrapCodes == {"trap_instruction_address_misaligned", "trap_instruction_access_fault",
              "trap_illegal_instruction", "trap_interrupt"}
ZeroCause == [ip |-> {}, exccode |-> "trap_instruction_address_misaligned"]

Addr == {0, 4, 256}
\* an address mmu.get_badvaddr() reports
BadAddrs == {4}
RegVals == {0, 1}
CountMod == 2 ^ CountBits

\* the bits the #ifndef lines of set_sr clear
DisabledFlags(b) ==
  (IF "RISCV_ENABLE_64BIT" \in b THEN {} ELSE {"SR_SX", "SR_UX"}) \cup
  (IF "RISCV_ENABLE_FPU" \in b THEN {} ELSE {"SR_EF"}) \cup
  (IF "RISCV_ENABLE_RVC" \in b THEN {} ELSE {"SR_EC"}) \cup
  (IF "RISCV_ENABLE_VEC" \in b THEN {} ELSE {"SR_EV"})

\* a set_sr whose #ifndef RISCV_ENABLE_FPU line is missing
set_sr_keep_ef(val) ==
  [flags |-> (val.flags \ {"SR_ZERO"}) \ (DisabledFlags(build) \ {"SR_EF"}),
   im |-> val.im]

\* the value set_sr(val) leaves in sr
set_sr(val) ==
  [flags |-> (val.flags \ {"SR_ZERO"}) \ DisabledFlags(build), im |-> val.im]

xprlen(s) ==
  IF (IF "SR_S" \in s.flags THEN "SR_SX" \in s.flags ELSE "SR_UX" \in s.flags)
  THEN 64 ELSE 32

ResetSr == set_sr([flags |-> {"SR_S", "SR_SX"}, im |-> {}])

\* a lane slot: the lane processor it points to (0 is NULL) and that lane's utidx
Lanes == 0 .. MaxLanes - 1
NullLane == [obj |-> 0, utidx |-> 0 - 1]

reset ==
  /\ run' = FALSE
  /\ XPR' = [r \in DOMAIN XPR |-> 0]
  /\ pc' = 0
  /\ evec' = 0
  /\ epc' = 0
  /\ badvaddr' = 0
  /\ cause' = ZeroCause
  /\ count' = 0
  /\ compare' = 0
  /\ cycle' = 0
  /\ sr' = ResetSr
  /\ vecbanks_count' = 8
  /\ vlmax' = 32
  /\ vl' = 0
  /\ nxfpr_bank' = 256
  /\ nxpr_use' = 32
  /\ nfpr_use' = 32
  /\ uts' = [k \in Lanes |-> NullLane]

\* a vcfg that divides by the usage count, not by the count less one
vcfg_div_use ==
  Min(IF nxpr_use + nfpr_use < 2
      THEN nxfpr_bank * vecbanks_count
      ELSE (nxfpr_bank \div (nxpr_use + nfpr_use)) * vecbanks_count,
      MAX_UTS)

\* the value vcfg() leaves in vlmax
vcfg ==
  Min(IF nxpr_use + nfpr_use < 2
      THEN nxfpr_bank * vecbanks_count
      ELSE (nxfpr_bank \div (nxpr_use + nfpr_use - 1)) * vecbanks_count,
      MAX_UTS)

\* the value setvl(vlapp) leaves in vl
setvl(vlapp) == Min(vlmax, vlapp)

\* take_interrupt(): whether it throws trap_interrupt
take_interrupt ==
  /\ (cause.ip \cap sr.im) # {}
  /\ "SR_ET" \in sr.flags

\* the status value take_trap writes
TrapSr ==
  [flags |-> (((sr.flags \ {"SR_ET"}) \cup {"SR_S"}) \ {"SR_PS"}) \cup
             (IF "SR_S" \in sr.flags THEN {"SR_PS"} ELSE {}),
   im |-> sr.im]

\* a take_trap that redirects pc before it saves it
take_trap_pc_first(t, bad) ==
  IF t \notin TrapCodes
  THEN /\ abort' = "bad trap number"
       /\ UNCHANGED <<sr, cause, epc, pc, badvaddr>>
  ELSE IF "SR_ET" \notin sr.flags
  THEN /\ abort' = "error mode"
       /\ UNCHANGED <<sr, cause, epc, pc, badvaddr>>
  ELSE /\ sr' = set_sr(TrapSr)
       /\ cause' = [cause EXCEPT !.exccode = t]
       /\ pc' = evec
       /\ epc' = evec
       /\ badvaddr' = bad
       /\ UNCHANGED abort

\* a take_trap without its demand on SR_ET
take_trap_no_demand(t, bad) ==
  IF t \notin TrapCodes
  THEN /\ abort' = "bad trap number"
       /\ UNCHANGED <<sr, cause, epc, pc, badvaddr>>
  ELSE /\ sr' = set_sr(TrapSr)
       /\ cause' = [cause EXCEPT !.exccode = t]
       /\ epc' = pc
       /\ pc' = evec
       /\ badvaddr' = bad
       /\ UNCHANGED abort

\* a take_trap that checks its demands after it has written the trap state
take_trap_demand_last(t, bad) ==
  /\ sr' = set_sr(TrapSr)
  /\ cause' = [cause EXCEPT !.exccode = t]
  /\ epc' = pc
  /\ pc' = evec
  /\ badvaddr' = bad
  /\ abort' = (IF t \notin TrapCodes THEN "bad trap number"
               ELSE IF "SR_ET" \notin sr.flags THEN "error mode"
               ELSE abort)

\* take_trap(t, noisy), mmu.get_badvaddr() returning bad
take_trap(t, bad) ==
  IF t \notin TrapCodes
  THEN /\ abort' = "bad trap number"
       /\ UNCHANGED <<sr, cause, epc, pc, badvaddr>>
  ELSE IF "SR_ET" \notin sr.flags
  THEN /\ abort' = "error mode"
       /\ UNCHANGED <<sr, cause, epc, pc, badvaddr>>
  ELSE /\ sr' = set_sr(TrapSr)
       /\ cause' = [cause EXCEPT !.exccode = t]
       /\ epc' = pc
       /\ pc' = evec
       /\ badvaddr' = bad
       /\ UNCHANGED abort

deliver_ipi ==
  /\ cause' = [cause EXCEPT !.ip = @ \cup {"IPI_IRQ"}]
  /\ run' = TRUE

(***************************************************************************)
(* Initial states.                                                         *)
(***************************************************************************)
Regs == {0, 1}

\* the fields as reset() leaves them, no step call running
PowerOn ==
  /\ run = FALSE
  /\ XPR = [r \in Regs |-> 0]
  /\ pc = 0
  /\ evec = 0
  /\ epc = 0
  /\ badvaddr = 0
  /\ cause = ZeroCause
  /\ count = 0
  /\ compare = 0
  /\ cycle = 0
  /\ sr = ResetSr
  /\ vecbanks_count = 8
  /\ vlmax = 32
  /\ vl = 0
  /\ nxfpr_bank = 256
  /\ nxpr_use = 32
  /\ nfpr_use = 32
  /\ uts = [k \in Lanes |-> NullLane]
  /\ pos = "idle"
  /\ n = 0
  /\ noisy = FALSE
  /\ i = 0
  /\ g = 0
  /\ fetched = 0
  /\ abort = "none"

\* the static dispatch structures before any processor is constructed
Unbuilt ==
  /\ dispatch_table = [idx \in 0 .. DISPATCH_TABLE_SIZE - 1 |-> NullFn]
  /\ dispatch_chain = [idx \in 0 .. DISPATCH_TABLE_SIZE - 1 |-> <<>>]
  /\ constructed = 0
  /\ insn = NoInsn
  /\ ran = NotRun

\* and after the first constructor has run initialize_dispatch_table
Built ==
  /\ dispatch_chain = [idx \in 0 .. DISPATCH_TABLE_SIZE - 1 |-> BuildChain(opcodes, idx)]
  /\ dispatch_table =
       [idx \in 0 .. DISPATCH_TABLE_SIZE - 1 |-> BindSlot(BuildChain(opcodes, idx))]
  /\ constructed = 1
  /\ insn = NoInsn
  /\ ran = NotRun

\* a two-instruction opcode table; even words (all-zero memory too) match nothing
DefaultOpcodes == <<[opcode |-> 1, mask |-> 3], [opcode |-> 3, mask |-> 3]>>

MaxUtsVals == {32, 1024, 2048}

(***************************************************************************)
(* The decoder on its own: every opcode table within the bounds.           *)
(***************************************************************************)
InitDispatch ==
  /\ opcodes \in OpcodeTables
  /\ Unbuilt
  /\ build = Capabilities
  /\ MAX_UTS = 2048
  /\ PowerOn

\* processor_t::processor_t
Construct ==
  /\ abort = "none"
  /\ pos = "idle"
  /\ constructed < MaxProcs
  /\ constructed' = constructed + 1
  /\ initialize_dispatch_table
  /\ reset
  /\ UNCHANGED <<opcodes, insn, ran, buildVars, stepVars, abort>>

\* the call in execute_insn, for the fetched word w
Execute(w) ==
  /\ dispatch_table[0] # NullFn
  /\ insn' = w
  /\ ran' = Dispatched(w)
  /\ UNCHANGED <<opcodes, dispatch_table, dispatch_chain, constructed, buildVars,
                 regVars, vecVars, stepVars, abort>>

NextDispatch ==
  \/ Construct
  \/ \E w \in Words : Execute(w)

SpecDispatch == InitDispatch /\ [][NextDispatch]_vars

\* the opcode-table entries whose full pattern the word matches
Matching(w) ==
  {k \in 1 .. Len(opcodes) : BitAnd(w, opcodes[k].mask) = opcodes[k].opcode}

FirstOf(S) == CHOOSE k \in S : \A j \in S : k <= j

\* C2: a word that matches no opcode-table entry raises the illegal-instruction
\* fault and runs no handler, however many candidates its slot has.
C2_NoMatchIsIllegal ==
  (insn # NoInsn /\ Matching(insn) = {}) => ran = Illegal

\* C3: a word that matches some entry runs the handler of the first entry, in
\* opcode-table order, whose mask and opcode it matches.
C3_FirstMatchRuns ==
  (insn # NoInsn /\ Matching(insn) # {}) => ran = InsnFn(FirstOf(Matching(insn)))

\* two entries are candidates of the word's slot, the word matches only the second
C3_Witness ==
  /\ insn # NoInsn
  /\ Len(opcodes) = 2
  /\ Len(dispatch_chain[insn % DISPATCH_TABLE_SIZE]) = 2
  /\ opcodes[1].mask % DISPATCH_TABLE_SIZE = opcodes[2].mask % DISPATCH_TABLE_SIZE
  /\ opcodes[1].opcode % DISPATCH_TABLE_SIZE = opcodes[2].opcode % DISPATCH_TABLE_SIZE
  /\ opcodes[1].mask # opcodes[2].mask
  /\ Matching(insn) = {2}
  /\ ran = InsnFn(2)

\* C13: the first constructor fills every dispatch_chain slot with its candidates
\* and binds every dispatch_table slot; every later constructor, of a lane
\* processor too, leaves dispatch_table and every dispatch_chain slot unchanged.
C13_TableBuiltOnce ==
  [][Construct =>
       /\ constructed >= 1 => UNCHANGED <<dispatch_table, dispatch_chain>>
       /\ \A idx \in 0 .. DISPATCH_TABLE_SIZE - 1 :
            /\ dispatch_chain'[idx] = BuildChain(opcodes, idx)
            /\ dispatch_table'[idx] = BindSlot(BuildChain(opcodes, idx))]_vars

\* three processors constructed over a table with a one-candidate slot and a
\* two-candidate slot
C13_Witness ==
  /\ constructed = 3
  /\ Len(dispatch_chain[0]) = 1
  /\ Len(dispatch_chain[1]) = 2
  /\ dispatch_table[0] = InsnFn(dispatch_chain[0][1].func)
  /\ dispatch_table[1] = DispatchFn

(***************************************************************************)
(* The vector configuration on its own.  A step call reaches these fields  *)
(* only through reset() (halt) and through handlers calling vcfg / setvl.  *)
(***************************************************************************)
UseVals == {0, 1, 2, 32, 63}
VlRequests == {0 - 1, 0, 1, 16, 32, 1024, 2048, 4096}

InitVec ==
  /\ opcodes = DefaultOpcodes
  /\ Built
  /\ build = Capabilities
  /\ MAX_UTS \in MaxUtsVals
  /\ PowerOn

\* a vector-configuration handler storing the requested register counts
SetUse(nx, nf) ==
  /\ abort = "none"
  /\ nxpr_use' = nx
  /\ nfpr_use' = nf
  /\ UNCHANGED <<dispVars, buildVars, regVars, stepVars, abort,
                 vecbanks_count, nxfpr_bank, vlmax, vl, uts>>

Vcfg ==
  /\ abort = "none"
  /\ vlmax' = vcfg
  /\ UNCHANGED <<dispVars, buildVars, regVars, stepVars, abort,
                 vecbanks_count, nxfpr_bank, nxpr_use, nfpr_use, vl, uts>>

Setvl(vlapp) ==
  /\ abort = "none"
  /\ vl' = setvl(vlapp)
  /\ UNCHANGED <<dispVars, buildVars, regVars, stepVars, abort,
                 vecbanks_count, nxfpr_bank, nxpr_use, nfpr_use, vlmax, uts>>

\* reset() called by the harness between step calls
Reset ==
  /\ abort = "none"
  /\ pos = "idle"
  /\ reset
  /\ UNCHANGED <<dispVars, buildVars, stepVars, abort>>

NextVec ==
  \/ \E nx \in UseVals, nf \in UseVals : SetUse(nx, nf)
  \/ Vcfg
  \/ \E v \in VlRequests : Setvl(v)
  \/ Reset

SpecVec == InitVec /\ [][NextVec]_vars

\* C5: the configured vector length is at most vlmax, and vlmax is at most the
\* lane-array capacity, in every reachable state.
C5_VlWithinVlmax == vl <= vlmax /\ vlmax <= MAX_UTS

\* C10: vcfg() sets vlmax to min(bank * banks, MAX_UTS) when u = nxpr_use +
\* nfpr_use is below 2 and to min((bank div (u - 1)) * banks, MAX_UTS) otherwise;
\* setvl(v) sets vl to v when v <= vlmax and to vlmax when v > vlmax.
C10_VcfgSetvl ==
  [][ /\ Vcfg =>
          LET u == nxpr_use + nfpr_use
              lanes == IF u < 2 THEN nxfpr_bank * vecbanks_count
                       ELSE (nxfpr_bank \div (u - 1)) * vecbanks_count
          IN  /\ u >= 2 => u - 1 # 0
              /\ vlmax' = (IF lanes <= MAX_UTS THEN lanes ELSE MAX_UTS)
      /\ \A v \in VlRequests :
           Setvl(v) => vl' = (IF v <= vlmax THEN v ELSE vlmax) ]_vars

\* vcfg has clamped vlmax to the capacity and setvl has clamped vl to vlmax
C10_Witness ==
  /\ nxpr_use + nfpr_use < 2
  /\ MAX_UTS < nxfpr_bank * vecbanks_count
  /\ vlmax = MAX_UTS
  /\ vlmax # 32
  /\ vl = vlmax

(***************************************************************************)
(* The status register on its own: every build configuration, and every    *)
(* write of sr in the file.                                                *)
(***************************************************************************)
InitSr ==
  /\ opcodes = DefaultOpcodes
  /\ Built
  /\ build \in SUBSET Capabilities
  /\ MAX_UTS = 2048
  /\ PowerOn

\* the values written: all bits, no bit, and the current value with one bit changed
SrWrites ==
  {[flags |-> SrFlags, im |-> IRQs], [flags |-> {}, im |-> {}]} \cup
  {[sr EXCEPT !.flags = @ \cup {f}] : f \in SrFlags} \cup
  {[sr EXCEPT !.flags = @ \ {f}] : f \in SrFlags} \cup
  {[sr EXCEPT !.im = @ \cup {q}] : q \in IRQs} \cup
  {[sr EXCEPT !.im = @ \ {q}] : q \in IRQs}

\* set_sr(val) called from outside a step call
SetSr(val) ==
  /\ abort = "none"
  /\ pos = "idle"
  /\ sr' = set_sr(val)
  /\ UNCHANGED <<dispVars, buildVars, vecVars, stepVars, abort, run, XPR, pc, evec,
                 epc, badvaddr, cause, count, compare, cycle>>

\* a trap delivered to the processor
TrapDelivery(t, bad) ==
  /\ abort = "none"
  /\ take_trap(t, bad)
  /\ UNCHANGED <<dispVars, buildVars, vecVars, stepVars, run, XPR, evec, count,
                 compare, cycle>>

NextSr ==
  \/ \E val \in SrWrites : SetSr(val)
  \/ \E f \in {"SR_EF", "SR_EV"} : SetSr([sr EXCEPT !.flags = @ \cup {f}])
  \/ TrapDelivery("trap_illegal_instruction", 0)
  \/ Reset

SpecSr == InitSr /\ [][NextSr]_vars

\* C9: after every status write the reserved bits of sr are zero, and so is every
\* feature-enable bit whose capability the build leaves out.
C9_SrMasked ==
  /\ "SR_ZERO" \notin sr.flags
  /\ "RISCV_ENABLE_64BIT" \notin build => sr.flags \cap {"SR_SX", "SR_UX"} = {}
  /\ "RISCV_ENABLE_FPU" \notin build => "SR_EF" \notin sr.flags
  /\ "RISCV_ENABLE_RVC" \notin build => "SR_EC" \notin sr.flags
  /\ "RISCV_ENABLE_VEC" \notin build => "SR_EV" \notin sr.flags

\* a write of every bit, on a build with no optional capability
C9_Witness ==
  /\ build = {}
  /\ sr = [flags |-> {"SR_ET", "SR_PS", "SR_S", "SR_VM"}, im |-> IRQs]

(***************************************************************************)
(* The step loop: one action per instruction and per control transfer.  A  *)
(* thrown signal and the catch block that receives it are one action.      *)
(***************************************************************************)
\* traps a handler raises by itself; commands a vector-thread handler raises
HandlerTraps == {"trap_illegal_instruction", "trap_instruction_access_fault"}
\* status values a handler writes: traps enabled, in supervisor and in user mode
HandlerSrVals == {[flags |-> {"SR_S", "SR_ET"}, im |-> IRQs],
                  [flags |-> {"SR_ET"}, im |-> {}]}

stepping == abort = "none" /\ pos # "idle"

\* step(n, noisy) on a processor that is not runnable: if(!run) return, with
\* nothing fetched by this call
StepNotRunnable(nn, nz) ==
  /\ abort = "none"
  /\ pos = "idle"
  /\ ~run
  /\ n' = nn
  /\ noisy' = nz
  /\ fetched' = 0
  /\ UNCHANGED <<dispVars, buildVars, regVars, vecVars, abort, pos, i, g>>

\* a step without its if(!run) return
StepCallAnyway(nn, nz) ==
  /\ abort = "none"
  /\ pos = "idle"
  /\ pos' = "top"
  /\ n' = nn
  /\ noisy' = nz
  /\ i' = 0
  /\ g' = 0
  /\ fetched' = 0
  /\ UNCHANGED <<dispVars, buildVars, regVars, vecVars, abort>>

\* step(n, noisy): size_t i = 0 and into while(1) try
StepCall(nn, nz) ==
  /\ abort = "none"
  /\ pos = "idle"
  /\ run
  /\ pos' = "top"
  /\ n' = nn
  /\ noisy' = nz
  /\ i' = 0
  /\ g' = 0
  /\ fetched' = 0
  /\ UNCHANGED <<dispVars, buildVars, regVars, vecVars, abort>>

\* a catch block outside the while(1): the trap is delivered and step returns
catch_trap_outside(t, bad) ==
  /\ i' = i + 1
  /\ g' = 0
  /\ take_trap(t, bad)
  /\ pos' = (IF abort' = "none" THEN "idle" ELSE pos)
  /\ UNCHANGED <<dispVars, buildVars, vecVars, n, noisy,
                 run, XPR, evec, count, compare, cycle>>

\* catch(trap_t t): i++ and take_trap, then around the while(1) again; a failed
\* demand ends the process where it stands
catch_trap(t, bad) ==
  /\ i' = i + 1
  /\ g' = 0
  /\ take_trap(t, bad)
  /\ pos' = (IF abort' = "none" THEN "top" ELSE pos)
  /\ UNCHANGED <<dispVars, buildVars, vecVars, n, noisy,
                 run, XPR, evec, count, compare, cycle>>

\* take_interrupt() at the head of the try block throws
TakeInterrupt(bad) ==
  /\ stepping
  /\ pos = "top"
  /\ take_interrupt
  /\ catch_trap("trap_interrupt", bad)
  /\ UNCHANGED fetched

\* take_interrupt() returns: into the loops
EnterLoop ==
  /\ stepping
  /\ pos = "top"
  /\ ~take_interrupt
  /\ pos' = (IF noisy THEN "loop" ELSE "group")
  /\ UNCHANGED <<dispVars, buildVars, regVars, vecVars, abort, n, noisy, i, g, fetched>>

\* a first loop that goes back to the head of the while(1) when it is over
GroupExitToTop ==
  /\ stepping
  /\ pos = "group"
  /\ g = 0
  /\ ~(n > 3 /\ i < n - 3)
  /\ pos' = "top"
  /\ UNCHANGED <<dispVars, buildVars, regVars, vecVars, abort, n, noisy, i, g, fetched>>

\* for( ; n > 3 && i < n-3; i+=4) is over: on to for( ; i < n; i++)
GroupExit ==
  /\ stepping
  /\ pos = "group"
  /\ g = 0
  /\ ~(n > 3 /\ i < n - 3)
  /\ pos' = "loop"
  /\ UNCHANGED <<dispVars, buildVars, regVars, vecVars, abort, n, noisy, i, g, fetched>>

\* the loop conditions under which the next execute_insn runs
InsnDue ==
  /\ stepping
  /\ \/ pos = "loop" /\ i < n
     \/ pos = "group" /\ (g > 0 \/ (n > 3 /\ i < n - 3))

\* an execute_insn without its XPR[0] = 0
KeepX0(x) == x

\* XPR[0] = 0 at the end of execute_insn
ClearX0(x) == [x EXCEPT ![0] = 0]

\* the loop counters after an execute_insn that returned
Advance ==
  IF pos = "loop"
  THEN i' = i + 1 /\ g' = g
  ELSE IF g = 3 THEN i' = i + 4 /\ g' = 0
       ELSE i' = i /\ g' = g + 1

\* execute_insn: the handler of the fetched word returns the next pc, having
\* written register rd and, when srw differs from sr, the status register
InsnRetire(w, npc, rd, v, srw) ==
  /\ InsnDue
  /\ Dispatched(w).kind = "func"
  /\ fetched' = fetched + 1
  /\ pc' = npc
  /\ XPR' = ClearX0([XPR EXCEPT ![rd] = v])
  /\ sr' = (IF srw = sr THEN sr ELSE set_sr(srw))
  /\ Advance
  /\ UNCHANGED <<dispVars, buildVars, vecVars, abort, n, noisy, pos,
                 run, evec, epc, badvaddr, cause, count, compare, cycle>>

\* mmu.load_insn throws
InsnFetchFault(bad) ==
  /\ InsnDue
  /\ fetched' = fetched + 1
  /\ catch_trap("trap_instruction_access_fault", bad)

\* the word matches nothing: processor_t::dispatch throws
InsnIllegal(w, bad) ==
  /\ InsnDue
  /\ Dispatched(w) = Illegal
  /\ fetched' = fetched + 1
  /\ catch_trap("trap_illegal_instruction", bad)

\* the handler throws a trap
InsnTrap(w, t, bad) ==
  /\ InsnDue
  /\ Dispatched(w).kind = "func"
  /\ fetched' = fetched + 1
  /\ catch_trap(t, bad)

\* size_t is twice as wide as the counters
SizeMod == 2 ^ (2 * CountBits)
max_count == CountMod - 1

\* the timer test after count += i, for the value old_count before it
TimerFires(old_count, new_count, ii) ==
  /\ old_count < compare
  /\ \/ new_count >= compare
     \/ old_count > (max_count - ii) % SizeMod

\* the lines after the loop, for the final value ii of i: cycle, count and the
\* timer interrupt, and step returns
tail(ii) ==
  /\ cycle' = (cycle + ii) % CountMod
  /\ count' = (count + ii) % CountMod
  /\ cause' = (IF TimerFires(count, (count + ii) % CountMod, ii)
               THEN [cause EXCEPT !.ip = @ \cup {"TIMER_IRQ"}]
               ELSE cause)
  /\ pos' = "idle"
  /\ UNCHANGED <<dispVars, buildVars, vecVars, abort, n, noisy, g,
                 run, XPR, pc, evec, epc, badvaddr, sr, compare>>

\* for( ; i < n; i++) is over: break, and the lines after the loop
LoopExit ==
  /\ stepping
  /\ pos = "loop"
  /\ ~(i < n)
  /\ i' = i
  /\ fetched' = fetched
  /\ tail(i)

\* the handler throws vt_command_stop: catch(vt_command_t), i++, break
InsnVtStop(w) ==
  /\ InsnDue
  /\ Dispatched(w).kind = "func"
  /\ fetched' = fetched + 1
  /\ i' = i + 1
  /\ tail(i + 1)

\* the handler throws another vector-thread command: i++, around the while(1)
InsnVtOther(w) ==
  /\ InsnDue
  /\ Dispatched(w).kind = "func"
  /\ fetched' = fetched + 1
  /\ i' = i + 1
  /\ g' = 0
  /\ pos' = "top"
  /\ UNCHANGED <<dispVars, buildVars, regVars, vecVars, abort, n, noisy>>

\* a catch(halt_t) that breaks out of the loop: the lines after it run on the
\* reset state
InsnHaltBreak(w) ==
  /\ InsnDue
  /\ Dispatched(w).kind = "func"
  /\ fetched' = fetched + 1
  /\ run' = FALSE
  /\ XPR' = [r \in DOMAIN XPR |-> 0]
  /\ pc' = 0
  /\ evec' = 0
  /\ epc' = 0
  /\ badvaddr' = 0
  /\ cause' = ZeroCause
  /\ count' = i % CountMod
  /\ compare' = 0
  /\ cycle' = i % CountMod
  /\ sr' = ResetSr
  /\ vecbanks_count' = 8
  /\ vlmax' = 32
  /\ vl' = 0
  /\ nxfpr_bank' = 256
  /\ nxpr_use' = 32
  /\ nfpr_use' = 32
  /\ uts' = [k \in Lanes |-> NullLane]
  /\ pos' = "idle"
  /\ UNCHANGED <<dispVars, buildVars, abort, n, noisy, i, g>>

\* the handler throws halt_t: catch(halt_t), reset() and return
InsnHalt(w) ==
  /\ InsnDue
  /\ Dispatched(w).kind = "func"
  /\ fetched' = fetched + 1
  /\ reset
  /\ pos' = "idle"
  /\ UNCHANGED <<dispVars, buildVars, abort, n, noisy, i, g>>

(***************************************************************************)
(* The owning harness, between step calls.                                 *)
(***************************************************************************)
DeliverIpi ==
  /\ abort = "none"
  /\ pos = "idle"
  /\ deliver_ipi
  /\ UNCHANGED <<dispVars, buildVars, vecVars, stepVars, abort, XPR, pc, evec,
                 epc, badvaddr, sr, count, compare, cycle>>

\* the trap vector and the timer compare value, as a test sets them up
SetEvec(a) ==
  /\ abort = "none"
  /\ pos = "idle"
  /\ evec' = a
  /\ UNCHANGED <<dispVars, buildVars, vecVars, stepVars, abort, run, XPR, pc,
                 epc, badvaddr, cause, sr, count, compare, cycle>>

SetCompare(c) ==
  /\ abort = "none"
  /\ pos = "idle"
  /\ compare' = c
  /\ UNCHANGED <<dispVars, buildVars, vecVars, stepVars, abort, run, XPR, pc,
                 evec, epc, badvaddr, cause, sr, count, cycle>>

Init ==
  /\ opcodes = DefaultOpcodes
  /\ Built
  /\ build = Capabilities
  /\ MAX_UTS = 2048
  /\ PowerOn

\* the processor driven with its inputs drawn from the sets of D
NextWith(D) ==
  \/ \E nn \in D.ns, nz \in BOOLEAN : StepNotRunnable(nn, nz)
  \/ \E nn \in D.ns, nz \in BOOLEAN : StepCall(nn, nz)
  \/ \E bad \in BadAddrs : TakeInterrupt(bad)
  \/ EnterLoop
  \/ GroupExit
  \/ LoopExit
  \/ \E w \in Words, npc \in D.npcs, rd \in D.rds, v \in RegVals,
        srw \in D.srws \cup {sr} : InsnRetire(w, npc, rd, v, srw)
  \/ \E bad \in BadAddrs : InsnFetchFault(bad)
  \/ \E w \in Words, bad \in BadAddrs : InsnIllegal(w, bad)
  \/ \E w \in Words, t \in HandlerTraps, bad \in BadAddrs : InsnTrap(w, t, bad)
  \/ \E w \in Words : InsnVtStop(w)
  \/ \E w \in Words : InsnVtOther(w)
  \/ \E w \in Words : InsnHalt(w)
  \/ DeliverIpi
  \/ \E val \in D.srws : SetSr(val)
  \/ \E a \in D.evecs : SetEvec(a)
  \/ \E c \in D.compares : SetCompare(c)
  \/ Reset

\* batches of every size, instructions that leave pc alone
LoopInputs ==
  [ns |-> 0 .. MaxN, npcs |-> {0}, rds |-> Regs, srws |-> HandlerSrVals,
   evecs |-> {0}, compares |-> {0}]

Next == NextWith(LoopInputs)

Spec == Init /\ [][Next]_vars

\* C7: one call step(n) fetches and dispatches at most n instructions, in tracing
\* and in non-tracing mode.
C7_FetchedAtMostN == fetched <= n

\* C8: integer register 0 reads as zero after every instruction that retires inside
\* step, and whenever step has returned.
C8_X0IsZero == XPR[0] = 0

\* inside an unrolled group of the non-tracing path, after instructions that wrote
\* their registers have retired
C8_Witness ==
  /\ pos = "group"
  /\ g = 2
  /\ fetched >= 2
  /\ XPR[1] = 1
  /\ XPR[0] = 0

(***************************************************************************)
(* Short batches with the trap vector, the next pc and the fault address   *)
(* varying: the trap pipeline.                                             *)
(***************************************************************************)
TrapInputs ==
  [ns |-> 0 .. 2, npcs |-> {4}, rds |-> {0}, srws |-> HandlerSrVals,
   evecs |-> {256}, compares |-> {0}]

NextTrap == NextWith(TrapInputs)

SpecTrap == Init /\ [][NextTrap]_vars

\* an instruction fetch or an instruction handler signals a synchronous fault
GuestFault ==
  \E bad \in BadAddrs :
    \/ InsnFetchFault(bad)
    \/ \E w \in Words : InsnIllegal(w, bad)
    \/ \E w \in Words, t \in HandlerTraps : InsnTrap(w, t, bad)

\* the trap t is raised, by take_interrupt, by fetch or by a handler
TrapRaised(t) ==
  \E bad \in BadAddrs :
    \/ t = "trap_interrupt" /\ TakeInterrupt(bad)
    \/ t = "trap_instruction_access_fault" /\ InsnFetchFault(bad)
    \/ t = "trap_illegal_instruction" /\ \E w \in Words : InsnIllegal(w, bad)
    \/ t \in HandlerTraps /\ \E w \in Words : InsnTrap(w, t, bad)

\* C1 as claimed: every synchronous fault of a guest instruction is delivered by
\* take_trap and the batch loop continues at the trap vector, never aborting.
C1_FaultsDelivered ==
  [][GuestFault => (abort' = "none" /\ pos' = "top" /\ pc' = evec)]_vars

\* C1 amended: a fault signalled while SR_ET is set is delivered and the loop
\* continues at the trap vector; one signalled while SR_ET is clear fails the
\* demand of take_trap and ends the process (error mode).
C1_FaultsDeliveredIfEnabled ==
  [][GuestFault =>
       IF "SR_ET" \in sr.flags
       THEN abort' = "none" /\ pos' = "top" /\ pc' = evec /\ i' = i + 1
       ELSE abort' = "error mode" /\ pc' = pc]_vars

\* a fault delivered inside a batch, after an instruction that retired at pc 4
C1_Witness ==
  /\ abort = "none"
  /\ pos = "top"
  /\ i = 2
  /\ fetched = 2
  /\ cause.exccode = "trap_illegal_instruction"
  /\ epc = 4
  /\ pc = 256

\* C6: a trap t delivered while SR_ET is set leaves SR_PS equal to the SR_S of
\* before, SR_S set, SR_ET clear, epc at the pc of before, the exception code t
\* and pc at evec.
C6_TrapDelivery ==
  [][\A t \in TrapCodes :
       (TrapRaised(t) /\ "SR_ET" \in sr.flags) =>
          /\ ("SR_PS" \in sr'.flags) <=> ("SR_S" \in sr.flags)
          /\ "SR_S" \in sr'.flags
          /\ "SR_ET" \notin sr'.flags
          /\ epc' = pc
          /\ cause'.exccode = t
          /\ pc' = evec]_vars

\* a fetch fault taken from user mode at pc 4
C6_Witness ==
  /\ abort = "none"
  /\ pos = "top"
  /\ cause.exccode = "trap_instruction_access_fault"
  /\ epc = 4
  /\ pc = 256
  /\ evec = 256
  /\ sr.flags = {"SR_S"}

(***************************************************************************)
(* Short batches against every counter and compare value: the timer.       *)
(***************************************************************************)
TimerInputs ==
  [ns |-> 0 .. 2, npcs |-> {0}, rds |-> {0},
   srws |-> {[flags |-> {"SR_S", "SR_ET"}, im |-> IRQs]},
   evecs |-> {0}, compares |-> 0 .. CountMod - 1]

NextTimer == NextWith(TimerInputs)

SpecTimer == Init /\ [][NextTimer]_vars

\* step returns by the lines after its loop, not by a halt
StepReturns == LoopExit \/ \E w \in Words : InsnVtStop(w)

\* the counter values old+1 .. old+k, modulo the counter width, reach c
Crosses(old, c, k) == \E j \in 1 .. k : (old + j) % CountMod = c

\* C4: when the counter values old+1 .. old+i of a batch reach or pass the compare
\* value, wrapping included, the timer interrupt-pending bit is set when step returns.
C4_TimerOnCrossing ==
  [][(StepReturns /\ i' >= 1 /\ Crosses(count, compare, i')) =>
        "TIMER_IRQ" \in cause'.ip]_vars

(***************************************************************************)
(* Halt and the non-runnable processor.                                    *)
(***************************************************************************)
\* a handler signals halt inside step
HaltRaised == \E w \in Words : InsnHalt(w)

\* C11: a halt signal raised inside step leaves the registers, pc, epc, cause,
\* count, compare, cycle and the vector configuration at their power-on values,
\* sr at its reset value and run false, and step returns at once: count and cycle
\* are not advanced, the timer bit is not set and no trap is delivered.
C11_HaltResets ==
  [][HaltRaised =>
       /\ run' = FALSE
       /\ XPR' = [r \in Regs |-> 0]
       /\ pc' = 0 /\ evec' = 0 /\ epc' = 0 /\ badvaddr' = 0
       /\ cause' = ZeroCause
       /\ count' = 0 /\ compare' = 0 /\ cycle' = 0
       /\ sr' = ResetSr
       /\ vecbanks_count' = 8 /\ nxfpr_bank' = 256
       /\ nxpr_use' = 32 /\ nfpr_use' = 32 /\ vlmax' = 32 /\ vl' = 0
       /\ pos' = "idle"
       /\ abort' = "none"]_vars

\* a tracing batch ended by a halt on its second instruction: only a halt leaves
\* more words fetched than counted
C11_Witness ==
  /\ pos = "idle"
  /\ noisy
  /\ i = 1
  /\ fetched = 2
  /\ ~run
  /\ pc = 0
  /\ count = 0
  /\ cycle = 0
  /\ cause = ZeroCause

\* step(n, noisy) is called
StepCalled ==
  \E nn \in 0 .. MaxN, nz \in BOOLEAN : StepNotRunnable(nn, nz) \/ StepCall(nn, nz)

\* C12: while run is false no step call is in progress and a call of step(n)
\* fetches nothing and changes no field of the processor; run turns true only by
\* deliver_ipi, which adds the inter-processor bit to cause and changes no other
\* field.
C12_NotRunnableNoOp ==
  [][ /\ ~run => pos = "idle"
      /\ (~run /\ StepCalled) =>
            /\ UNCHANGED <<dispVars, buildVars, regVars, vecVars, abort>>
            /\ pos' = "idle"
            /\ fetched' = 0
      /\ (~run /\ run') =>
            /\ cause' = [cause EXCEPT !.ip = @ \cup {"IPI_IRQ"}]
            /\ UNCHANGED <<dispVars, buildVars, vecVars, stepVars, abort, XPR, pc,
                           evec, epc, badvaddr, sr, count, compare, cycle>> ]_vars

\* step(2) was called on a processor that is not runnable, its trap vector set
\* up, and then the inter-processor interrupt was delivered
C12_Witness ==
  /\ run
  /\ pos = "idle"
  /\ n = 2
  /\ fetched = 0
  /\ i = 0
  /\ evec = 256
  /\ pc = 0
  /\ count = 0
  /\ cause = [ip |-> {"IPI_IRQ"}, exccode |-> "trap_instruction_address_misaligned"]

(***************************************************************************)
(* The lane processors.                                                    *)
(***************************************************************************)
\* processor_t::init: one processor_t constructed per lane slot, its utidx set
InitLanes ==
  /\ abort = "none"
  /\ pos = "idle"
  /\ constructed + MaxLanes <= MaxProcs
  /\ constructed' = constructed + MaxLanes
  /\ initialize_dispatch_table
  /\ uts' = [k \in Lanes |-> [obj |-> constructed + k + 1, utidx |-> k]]
  /\ UNCHANGED <<opcodes, insn, ran, buildVars, regVars, stepVars, abort,
                 vecbanks_count, nxfpr_bank, nxpr_use, nfpr_use, vlmax, vl>>

LaneInputs ==
  [ns |-> 1 .. 2, npcs |-> {0}, rds |-> {0},
   srws |-> {[flags |-> {"SR_S", "SR_ET"}, im |-> IRQs]},
   evecs |-> {0}, compares |-> {0}]

NextLanes ==
  \/ NextWith(LaneInputs)
  \/ InitLanes

SpecLanes == Init /\ [][NextLanes]_vars

\* init has run: beyond the owning processor only init constructs processors here
LanesCreated == constructed = 1 + MaxLanes

\* C18: once init has created the lane processors, every slot uts[k] refers to
\* the lane processor init put there, whose utidx is k, in every state reached
\* afterwards by steps, trap deliveries, halts and resets of the owner.
C18_LanesPersist ==
  LanesCreated =>
    \A k \in Lanes : uts[k] = [obj |-> k + 2, utidx |-> k]

(***************************************************************************)
(* Batches over all-zero memory: every fetch returns the word 0, which the *)
(* opcode table does not match.                                            *)
(***************************************************************************)
ZeroWord == 0

ScenarioSrVals == {[flags |-> {"SR_S", "SR_ET"}, im |-> {}],
                   [flags |-> {"SR_S", "SR_ET"}, im |-> IRQs]}

\* the test enables traps once, on the processor as reset() left it
EnableTraps(val) ==
  /\ sr = ResetSr
  /\ SetSr(val)

NextScenario ==
  \/ \E nn \in 0 .. MaxN, nz \in BOOLEAN : StepNotRunnable(nn, nz)
  \/ \E nn \in 0 .. MaxN, nz \in BOOLEAN : StepCall(nn, nz)
  \/ \E bad \in BadAddrs : TakeInterrupt(bad)
  \/ EnterLoop
  \/ GroupExit
  \/ LoopExit
  \/ \E bad \in BadAddrs : InsnIllegal(ZeroWord, bad)
  \/ DeliverIpi
  \/ \E val \in ScenarioSrVals : EnableTraps(val)
  \/ \E a \in {256} : SetEvec(a)
  \/ \E c \in 0 .. CountMod - 1 : SetCompare(c)
  \/ Reset

SpecScenario == Init /\ [][NextScenario]_vars

\* the batch step(5) of the scenario: started on a reset processor (count and
\* cycle 0, pc 0) with compare 0, trap vector 0x100, no interrupt enabled and
\* traps enabled in supervisor mode; SR_PS is set only by the first trap
InScenario ==
  /\ n = 5
  /\ evec = 256
  /\ compare = 0
  /\ count = 0
  /\ cycle = 0
  /\ sr.im = {}
  /\ \/ pos # "idle" /\ fetched = 0 /\ pc = 0 /\ {"SR_S", "SR_ET"} \subseteq sr.flags
     \/ fetched >= 1 /\ "SR_PS" \in sr.flags

\* C14 as claimed: the batch takes the illegal-instruction fault on its first
\* fetch with epc = the initial pc and pc = 0x100, runs to its end, and ends with
\* the timer interrupt-pending bit set.
C14_ScenarioTimer ==
  InScenario =>
    /\ abort = "none"
    /\ fetched >= 1 =>
          cause.exccode = "trap_illegal_instruction" /\ epc = 0
    /\ fetched = 1 => pc = 256
    /\ pos = "idle" => "TIMER_IRQ" \in cause.ip

\* C14 amended: the first fetch takes the illegal-instruction fault with epc = the
\* initial pc and pc = 0x100; the second fetch, at 0x100, faults with SR_ET clear,
\* the demand of take_trap fails and the process ends there: the batch does not
\* end and the timer bit is never set.
C14_ScenarioErrorMode ==
  InScenario =>
    /\ fetched <= 2
    /\ fetched >= 1 =>
          /\ cause.exccode = "trap_illegal_instruction"
          /\ epc = 0
          /\ pc = 256
          /\ "SR_ET" \notin sr.flags
    /\ fetched = 1 => abort = "none"
    /\ fetched = 2 => abort = "error mode"
    /\ pos # "idle"
    /\ "TIMER_IRQ" \notin cause.ip

\* the scenario after its second fetch
C14_Witness ==
  /\ InScenario
  /\ fetched = 2
  /\ abort = "error mode"
  /\ epc = 0
  /\ pc = 256

(***************************************************************************)
(* take_trap called with every trap code, valid or not, in every status.   *)
(***************************************************************************)
\* a trap_t value that is not below NUM_TRAPS
BadTrapCode == "trap_beyond_NUM_TRAPS"

\* status writes between the calls: all bits, no bit, and the current value with
\* one of the bits take_trap reads or writes changed
TrapCallWrites ==
  {[flags |-> SrFlags, im |-> IRQs], [flags |-> {}, im |-> {}]} \cup
  {[sr EXCEPT !.flags = @ \cup {f}] : f \in {"SR_ET", "SR_S", "SR_PS"}} \cup
  {[sr EXCEPT !.flags = @ \ {f}] : f \in {"SR_ET", "SR_S", "SR_PS"}}

NextTrapCall ==
  \/ \E val \in TrapCallWrites : SetSr(val)
  \/ \E t \in TrapCodes \cup {BadTrapCode}, bad \in BadAddrs : TrapDelivery(t, bad)
  \/ \E a \in {256} : SetEvec(a)
  \/ Reset

SpecTrapCall == Init /\ [][NextTrapCall]_vars

\* C15: take_trap called with a trap code that is not below NUM_TRAPS, or while
\* SR_ET is clear, ends the process with a diagnostic and leaves sr, cause, epc,
\* pc and badvaddr as they were.
C15_RejectedTrap ==
  [][\A t \in TrapCodes \cup {BadTrapCode}, bad \in BadAddrs :
       (TrapDelivery(t, bad) /\ (t \notin TrapCodes \/ "SR_ET" \notin sr.flags)) =>
          /\ abort' \in {"bad trap number", "error mode"}
          /\ abort' = "bad trap number" <=> t \notin TrapCodes
          /\ UNCHANGED <<sr, cause, epc, pc, badvaddr>>]_vars

\* a bad trap code rejected while traps are enabled and the vector is away from pc
C15_Witness ==
  /\ abort = "bad trap number"
  /\ "SR_ET" \in sr.flags
  /\ evec = 256
  /\ pc = 0
  /\ badvaddr = 0
  /\ cause = ZeroCause

(***************************************************************************)
(* The batch loop: grouping, interrupt checks, termination and counting.   *)
(***************************************************************************)
\* an execute_insn that leaves the batch running: it returns, or its signal is
\* caught and the while(1) goes around
InsnContinues ==
  \/ \E w \in Words, npc \in Addr, rd \in Regs, v \in RegVals, srw \in HandlerSrVals \cup {sr} :
        InsnRetire(w, npc, rd, v, srw)
  \/ \E bad \in BadAddrs : InsnFetchFault(bad)
  \/ \E w \in Words, bad \in BadAddrs : InsnIllegal(w, bad)
  \/ \E w \in Words, t \in HandlerTraps, bad \in BadAddrs : InsnTrap(w, t, bad)
  \/ \E w \in Words : InsnVtOther(w)

\* an execute_insn of any outcome
InsnExecuted ==
  \/ InsnContinues
  \/ \E w \in Words : InsnVtStop(w)
  \/ \E w \in Words : InsnHalt(w)

\* C16: the non-tracing path runs in lockstep with the tracing one.  In the
\* tracing path every execute_insn that does not halt adds one to i; so the two
\* paths execute the same instructions and add the same amount to count and cycle
\* exactly when, in the non-tracing path, i plus the position g inside the current
\* group of four goes up by one with every such instruction, and a stop command
\* adds that number plus one to count and cycle.
C16_GroupingInvisible ==
  [][ /\ InsnContinues => i' + g' = i + g + 1
      /\ (\E w \in Words : InsnVtStop(w)) =>
            /\ count' = (count + i + g + 1) % CountMod
            /\ cycle' = (cycle + i + g + 1) % CountMod ]_vars

\* C17: whenever, at an instruction boundary inside step, a pending interrupt is
\* enabled by the interrupt mask and SR_ET is set, no instruction is fetched: the
\* interrupt trap is raised first.
C17_InterruptBeforeFetch ==
  [][(stepping /\ take_interrupt) => ~InsnExecuted]_vars

\* C20: a call of step that is not ended by halt advances count and cycle, modulo
\* the counter width, by the same amount, and that amount is at most n.
C20_CountAdvance ==
  [][StepReturns =>
       /\ count' = (count + i') % CountMod
       /\ cycle' = (cycle + i') % CountMod
       /\ i' <= n]_vars

(***************************************************************************)
(* Termination of a call: once inside step, its control flow keeps going,  *)
(* every fetch and handler call returning or signalling.                   *)
(***************************************************************************)
TermInputs ==
  [ns |-> 0 .. MaxN, npcs |-> {0}, rds |-> {0},
   srws |-> {[flags |-> {"SR_S", "SR_ET"}, im |-> IRQs]},
   evecs |-> {0}, compares |-> {0}]

NextTerm == NextWith(TermInputs)

SpecTerm == Init /\ [][NextTerm]_vars /\ WF_vars(stepping /\ NextTerm)

\* C19: every call of step on a runnable processor comes to an end: step returns,
\* or a failed demand ends the process.
C19_StepTerminates == stepping ~> ~stepping

\* a non-tracing batch of MaxN that went around the while(1) for an interrupt, a
\* trap and absorbed commands, and has returned
C19_Witness ==
  /\ pos = "idle"
  /\ abort = "none"
  /\ run
  /\ ~noisy
  /\ n = MaxN
  /\ i >= n
  /\ fetched > n
  /\ epc = 0
  /\ "SR_PS" \in sr.flags

====
